---------------------------- MODULE Spec2Model ----------------------------
(***************************************************************************)
(* BatchMe - UPC barcode generator (src/barcode_generator.py).             *)
(*                                                                         *)
(* A string is a sequence of one-character strings.  The external barcode  *)
(* library (python-barcode) is the environment: a renderer call either     *)
(* succeeds and writes the file, or raises.                                *)
(***************************************************************************)
EXTENDS Integers, Sequences, FiniteSets, TLC

VARIABLES
    mode,             \* the driver: "batch", "cli", "gui", "calls", "clean"
    pc,               \* control position of the driver
    input,            \* what the caller / user supplied (never changes)
    text,             \* cli_mode: text still unread on sys.stdin;
                      \* the form: content of the text widget
    upc_list,         \* the list cli_mode / generate_barcodes / the caller builds
    index,            \* generate_batch: enumerate index of the next element
    generated_files,  \* generate_batch: local list of returned paths
    errors,           \* generate_batch: local list of error messages
    generator,        \* the UPCBarcodeGenerator object: <<>> before construction
    dir,              \* what is at the output path: "absent", "dir", "file"
    files,            \* names of the files in the output directory
    calls,            \* log of the generate_barcode calls made, in order
    exit_status,      \* <<>> while the process runs, <<code>> once it exited
    history           \* results of the batches that already returned

vars == <<mode, pc, input, text, upc_list, index, generated_files, errors,
          generator, dir, files, calls, exit_status, history>>

-----------------------------------------------------------------------------
(* Bounds *)

MaxLines == 3
MaxUpcLen == 13
MaxCleanLen == 5

-----------------------------------------------------------------------------
(* Characters and strings *)

Digits == {"0", "1", "2", "3", "4", "5", "6", "7", "8", "9"}

DigitChars == <<"0", "1", "2", "3", "4", "5", "6", "7", "8", "9">>

Whitespace == {" ", "\t", "\n", "\r"}

\* c.isdigit()
IsDigit(c) == c \in Digits

isspace(c) == c \in Whitespace

Min(S) == CHOOSE x \in S : \A y \in S : x <= y

RECURSIVE lstrip(_)
lstrip(s) == IF s = <<>> \/ ~isspace(Head(s)) THEN s ELSE lstrip(Tail(s))

RECURSIVE rstrip(_)
rstrip(s) ==
    IF s = <<>> \/ ~isspace(s[Len(s)]) THEN s
    ELSE rstrip(SubSeq(s, 1, Len(s) - 1))

\* str.strip(): leading and trailing whitespace removed
strip(s) == rstrip(lstrip(s))

\* Strings of length at most n over an alphabet
BoundedStrings(alphabet, n) == UNION {[1..k -> alphabet] : k \in 0..n}

\* Lists of length at most n over a set of elements
BoundedLists(elems, n) == UNION {[1..k -> elems] : k \in 0..n}

-----------------------------------------------------------------------------
(* UPCBarcodeGenerator *)

\* mutant: mkdir() without exist_ok
MkdirOk_NoExistOk(d) == d = "absent"

\* Path.mkdir(exist_ok=True): succeeds when nothing or a directory is there,
\* raises FileExistsError when the path is something else
MkdirOk(d) == d \in {"absent", "dir"}

\* mutant: only whitespace and dashes are removed
clean_upc_DashesOnly(upc) ==
    LET Keep(c) == c \notin Whitespace \cup {"-"} IN SelectSeq(upc, Keep)

\* clean_upc: the digit characters of upc, in order
clean_upc(upc) == SelectSeq(upc, IsDigit)

\* mutant: a range check instead of the two lengths
ValidLength_Range(n) == n >= 8 /\ n <= 12

\* mutant: the check accepts every length up to 12
ValidLength_AtMost12(n) == n <= 12

\* len(cleaned_upc) in [8, 12]
ValidLength(n) == n \in {8, 12}

\* barcode.get_barcode_class('upca') / ('upce')
BarcodeClass(n) == IF n = 12 THEN "upca" ELSE "upce"

RECURSIVE Decimal(_)
\* str(n), n >= 0
Decimal(n) ==
    IF n < 10 THEN <<DigitChars[n + 1]>>
    ELSE Decimal(n \div 10) \o <<DigitChars[(n % 10) + 1]>>

RECURSIVE ZeroPad(_, _)
ZeroPad(s, width) == IF Len(s) >= width THEN s ELSE ZeroPad(<<"0">> \o s, width)

\* mutant: the index field cut to its last four digits
Format04d_Truncated(n) == ZeroPad(Decimal(n % 10000), 4)

\* f"{index:04d}"
Format04d(n) == ZeroPad(Decimal(n), 4)

\* f"{index:04d}_{cleaned_upc}"
Filename(idx, cleaned_upc) == Format04d(idx) \o <<"_">> \o cleaned_upc

\* upc_barcode.save(str(output_path)): the writer appends its extension
Save(output_path) == output_path \o <<".", "p", "n", "g">>

NoError == [type |-> "None", detail |-> <<>>]

\* ValueError(f"Invalid UPC length: {n} digits. Must be 8 or 12 digits.");
\* detail is the formatted count
InvalidLength(n) == [type |-> "ValueError", detail |-> Decimal(n)]

\* any exception of the barcode library
RenderFailure == [type |-> "RenderFailure", detail |-> <<>>]

\* generate_barcode(upc, index), with the renderer succeeding or raising
GenerateBarcode(upc, idx, renderOk) ==
    LET cleaned_upc == clean_upc(upc)
        n == Len(cleaned_upc)
    IN  IF ~ValidLength(n)
        THEN [upc |-> upc, index |-> idx, selected |-> "none",
              raised |-> InvalidLength(n), filename |-> <<>>, path |-> <<>>]
        ELSE IF renderOk
        THEN [upc |-> upc, index |-> idx, selected |-> BarcodeClass(n),
              raised |-> NoError, filename |-> Filename(idx, cleaned_upc),
              path |-> Save(Filename(idx, cleaned_upc))]
        ELSE [upc |-> upc, index |-> idx, selected |-> BarcodeClass(n),
              raised |-> RenderFailure, filename |-> Filename(idx, cleaned_upc),
              path |-> <<>>]

\* mutant: except ValueError as e
Catches_ValueErrorOnly(e) == e.type = "ValueError"

\* except Exception as e
Catches(e) == e.type \in {"ValueError", "RenderFailure"}

\* f"... Error generating barcode for '{upc.strip()}': {str(e)}"
ErrorMsg(upc, e) == [upc |-> strip(upc), type |-> e.type, detail |-> e.detail]

-----------------------------------------------------------------------------
(* Representative input lines *)

L12 == <<"1", "2", "3", "4", "5", "6", "7", "8", "9", "0", "1", "2">>
L8 == <<"1", "2", "3", "4", "5", "6", "7", "8">>
L7 == <<"1", "2", "3", "4", "5", "6", "7">>
Blank == <<>>
Spaces == <<" ", "\t">>
Noisy == <<" ", "1", "2", "3", "4", "-", "5", "6", "7", "8">>

Lines == {L12, L8, L7, Blank, Spaces, Noisy}

DirStates == {"absent", "dir", "file"}

-----------------------------------------------------------------------------
(* Text handed to the two entry points *)

\* the lines a user types or pastes, each ended by a newline
RECURSIVE JoinLines(_)
JoinLines(lines) ==
    IF lines = <<>> THEN <<>>
    ELSE Head(lines) \o <<"\n">> \o JoinLines(Tail(lines))

Newlines(t) == {i \in 1..Len(t) : t[i] = "\n"}

\* next(sys.stdin): the first line of t, its newline included
FirstLine(t) ==
    IF Newlines(t) = {} THEN t ELSE SubSeq(t, 1, Min(Newlines(t)))

RestAfterFirstLine(t) == SubSeq(t, Len(FirstLine(t)) + 1, Len(t))

RECURSIVE Split(_)
\* text.split('\n')
Split(t) ==
    IF Newlines(t) = {} THEN <<t>>
    ELSE <<SubSeq(t, 1, Min(Newlines(t)) - 1)>>
         \o Split(SubSeq(t, Min(Newlines(t)) + 1, Len(t)))

\* self.text_input.get(1.0, tk.END): the content and the widget's last newline
TkGet(content) == content \o <<"\n">>

NonBlank(line) == strip(line) # <<>>

\* [line.strip() for line in text.split('\n') if line.strip()]
GuiList(t) ==
    LET kept == SelectSeq(Split(t), NonBlank)
    IN  [i \in 1..Len(kept) |-> strip(kept[i])]

\* mutant: the test looks for a non-blank line
NoInput_AllBlank(list) == \A i \in 1..Len(list) : ~NonBlank(list[i])

\* if not upc_list
NoInput(list) == list = <<>>

-----------------------------------------------------------------------------
(* UPCBarcodeGenerator.__init__ and generate_batch *)

\* mutant: blank lines are not numbered
EnumIndex_NonBlankOnly(list, pos) ==
    Cardinality({j \in 1..pos : NonBlank(list[j])})

\* mutant: only the empty string is skipped
IsBlankLine_EmptyOnly(upc) == upc = <<>>

\* enumerate(upc_list, start=1): the index paired with the element at pos
EnumIndex(list, pos) == pos

\* if not upc.strip(): continue
IsBlankLine(upc) == strip(upc) = <<>>

\* UPCBarcodeGenerator(output_dir): __init__ creates the directory
Construct ==
    /\ pc = "construct"
    /\ IF MkdirOk(dir)
       THEN /\ dir' = "dir"
            /\ generator' = <<"barcodes">>
            /\ pc' = (IF mode = "calls" THEN "calling" ELSE "call_batch")
            /\ exit_status' = exit_status
       ELSE \* FileExistsError: caught by the form, uncaught elsewhere
            /\ dir' = dir
            /\ generator' = generator
            /\ pc' = (IF mode = "gui" THEN "gui_error" ELSE "crashed")
            /\ exit_status' = (IF mode = "cli" THEN <<1>> ELSE exit_status)
    /\ UNCHANGED <<mode, input, text, upc_list, index, generated_files,
                   errors, files, calls, history>>

\* generate_batch entered: the two local lists start empty
BatchEnter ==
    /\ pc = "call_batch"
    /\ pc' = "batch"
    /\ index' = 1
    /\ generated_files' = <<>>
    /\ errors' = <<>>
    /\ UNCHANGED <<mode, input, text, upc_list, generator, dir, files, calls,
                   exit_status, history>>

\* one iteration of the for loop
BatchIter ==
    /\ pc = "batch"
    /\ index <= Len(upc_list)
    /\ LET upc == upc_list[index] IN
       IF IsBlankLine(upc)
       THEN /\ index' = index + 1
            /\ UNCHANGED <<pc, generated_files, errors, files, calls,
                           exit_status>>
       ELSE \E renderOk \in BOOLEAN :
            LET r == GenerateBarcode(strip(upc), EnumIndex(upc_list, index),
                                     renderOk) IN
            \* the renderer is only asked when a class was selected
            /\ r.selected = "none" => renderOk
            /\ calls' = Append(calls, r)
            /\ IF r.raised = NoError
               THEN /\ files' = files \cup {r.path}
                    /\ generated_files' = Append(generated_files, r.path)
                    /\ index' = index + 1
                    /\ UNCHANGED <<pc, errors, exit_status>>
               ELSE IF Catches(r.raised)
               THEN /\ errors' = Append(errors, ErrorMsg(upc, r.raised))
                    /\ index' = index + 1
                    /\ UNCHANGED <<pc, files, generated_files, exit_status>>
               ELSE \* the exception leaves generate_batch
                    /\ pc' = (IF mode = "gui" THEN "gui_error" ELSE "crashed")
                    /\ exit_status' =
                           (IF mode = "cli" THEN <<1>> ELSE exit_status)
                    /\ UNCHANGED <<files, generated_files, errors, index>>
    /\ UNCHANGED <<mode, input, text, upc_list, generator, dir, history>>

\* the loop is over: the summary is printed and generated_files returned
BatchReturn ==
    /\ pc = "batch"
    /\ index > Len(upc_list)
    /\ pc' = "returned"
    /\ history' = Append(history, [returned |-> generated_files,
                                   errors |-> errors,
                                   files |-> files,
                                   calls |-> calls])
    /\ UNCHANGED <<mode, input, text, upc_list, index, generated_files,
                   errors, generator, dir, files, calls, exit_status>>

-----------------------------------------------------------------------------
(* cli_mode *)

\* for line in sys.stdin: upc_list.append(line.strip())
CliReadLine ==
    /\ mode = "cli"
    /\ pc = "cli_read"
    /\ text # <<>>
    /\ upc_list' = Append(upc_list, strip(FirstLine(text)))
    /\ text' = RestAfterFirstLine(text)
    /\ UNCHANGED <<mode, pc, input, index, generated_files, errors,
                   generator, dir, files, calls, exit_status, history>>

\* except KeyboardInterrupt: sys.exit(0)
CliInterrupt ==
    /\ mode = "cli"
    /\ pc = "cli_read"
    /\ pc' = "cancelled"
    /\ exit_status' = <<0>>
    /\ UNCHANGED <<mode, input, text, upc_list, index, generated_files,
                   errors, generator, dir, files, calls, history>>

\* end of input: if not upc_list: sys.exit(1), else go on to the batch
CliEndOfInput ==
    /\ mode = "cli"
    /\ pc = "cli_read"
    /\ text = <<>>
    /\ IF NoInput(upc_list)
       THEN /\ pc' = "no_input"
            /\ exit_status' = <<1>>
       ELSE /\ pc' = "construct"
            /\ exit_status' = exit_status
    /\ UNCHANGED <<mode, input, text, upc_list, index, generated_files,
                   errors, generator, dir, files, calls, history>>

\* generate_batch returned: cli_mode and main return, the process ends
CliReturn ==
    /\ mode = "cli"
    /\ pc = "returned"
    /\ pc' = "exited"
    /\ exit_status' = <<0>>
    /\ UNCHANGED <<mode, input, text, upc_list, index, generated_files,
                   errors, generator, dir, files, calls, history>>

-----------------------------------------------------------------------------
(* BarcodeGeneratorGUI.generate_barcodes *)

\* the button is pressed: the list is built from the widget's text
GuiGenerate ==
    /\ mode = "gui"
    /\ pc = "gui_ready"
    /\ upc_list' = GuiList(TkGet(text))
    /\ pc' = (IF NoInput(upc_list') THEN "gui_warned" ELSE "construct")
    /\ UNCHANGED <<mode, input, text, index, generated_files, errors,
                   generator, dir, files, calls, exit_status, history>>

\* generate_batch returned: the success message is shown
GuiReturn ==
    /\ mode = "gui"
    /\ pc = "returned"
    /\ pc' = "gui_done"
    /\ UNCHANGED <<mode, input, text, upc_list, index, generated_files,
                   errors, generator, dir, files, calls, exit_status, history>>

-----------------------------------------------------------------------------
(* A client calling generate_barcode itself *)

CallGenerateBarcode ==
    /\ mode = "calls"
    /\ pc = "calling"
    /\ Len(calls) < Len(input)
    /\ LET a == input[Len(calls) + 1] IN
       \E renderOk \in BOOLEAN :
       LET r == GenerateBarcode(a.upc, a.index, renderOk) IN
       /\ r.selected = "none" => renderOk
       /\ calls' = Append(calls, r)
       /\ files' = (IF r.raised = NoError THEN files \cup {r.path} ELSE files)
    /\ UNCHANGED <<mode, pc, input, text, upc_list, index, generated_files,
                   errors, generator, dir, exit_status, history>>

\* a second batch over the same list, on a new generator for the same directory
RunAgain ==
    /\ mode = "batch"
    /\ pc = "returned"
    /\ Len(history) = 1
    /\ pc' = "construct"
    /\ generator' = <<>>
    /\ calls' = <<>>
    /\ UNCHANGED <<mode, input, text, upc_list, index, generated_files,
                   errors, dir, files, exit_status, history>>

\* clean_upc applied to the input, then to its own result
CleanCall ==
    /\ mode = "clean"
    /\ pc = "clean"
    /\ Len(calls) < 2
    /\ calls' = Append(calls, clean_upc(IF calls = <<>> THEN input
                                        ELSE calls[Len(calls)]))
    /\ UNCHANGED <<mode, pc, input, text, upc_list, index, generated_files,
                   errors, generator, dir, files, exit_status, history>>

-----------------------------------------------------------------------------
(* Initial states *)

Fresh ==
    /\ index = 1
    /\ generated_files = <<>>
    /\ errors = <<>>
    /\ generator = <<>>
    /\ files = {}
    /\ calls = <<>>
    /\ exit_status = <<>>
    /\ history = <<>>

\* a caller of generate_batch on a fresh generator
InitBatch ==
    /\ mode = "batch"
    /\ pc = "construct"
    /\ input \in BoundedLists(Lines, MaxLines)
    /\ text = <<>>
    /\ upc_list = input
    /\ dir \in DirStates
    /\ Fresh

\* main() with --cli: the lines arrive on standard input
InitCli ==
    /\ mode = "cli"
    /\ pc = "cli_read"
    /\ input \in BoundedLists(Lines, MaxLines)
    /\ text = JoinLines(input)
    /\ upc_list = <<>>
    /\ dir \in DirStates
    /\ Fresh

\* the form, with the lines pasted into the text widget
InitGui ==
    /\ mode = "gui"
    /\ pc = "gui_ready"
    /\ input \in BoundedLists(Lines, MaxLines)
    /\ text = JoinLines(input)
    /\ upc_list = <<>>
    /\ dir \in DirStates
    /\ Fresh

IndexSamples == {1, 2, 10, 9999, 10000, 10001}

CallArgs == [upc : {L12, L8, Noisy, L7}, index : IndexSamples]

\* a client making two generate_barcode calls on one generator
InitCalls ==
    /\ mode = "calls"
    /\ pc = "construct"
    /\ input \in {<<a, b>> : a \in CallArgs, b \in CallArgs}
    /\ text = <<>>
    /\ upc_list = <<>>
    /\ dir \in DirStates
    /\ Fresh

UpcAlphabet == {"7", "-"}

\* one generate_barcode call on any string of digits and dashes
InitBarcode ==
    /\ mode = "calls"
    /\ pc = "construct"
    /\ input \in {<<[upc |-> s, index |-> 1]>> :
                     s \in BoundedStrings(UpcAlphabet, MaxUpcLen)}
    /\ text = <<>>
    /\ upc_list = <<>>
    /\ dir = "absent"
    /\ Fresh

CleanAlphabet == {"1", "2", "-", "a", " "}

\* clean_upc on any string over digits, a dash, a letter and a space
InitClean ==
    /\ mode = "clean"
    /\ pc = "clean"
    /\ input \in BoundedStrings(CleanAlphabet, MaxCleanLen)
    /\ text = <<>>
    /\ upc_list = <<>>
    /\ dir = "absent"
    /\ Fresh

-----------------------------------------------------------------------------
(* Specifications *)

Init == InitBatch \/ InitCli \/ InitGui \/ InitCalls

Next ==
    \/ Construct
    \/ BatchEnter
    \/ BatchIter
    \/ BatchReturn
    \/ CliReadLine
    \/ CliInterrupt
    \/ CliEndOfInput
    \/ CliReturn
    \/ GuiGenerate
    \/ GuiReturn
    \/ CallGenerateBarcode

\* the program under its entry points
Spec == Init /\ [][Next]_vars

NextTwice == Construct \/ BatchEnter \/ BatchIter \/ BatchReturn \/ RunAgain

\* generate_batch run twice over the same list and directory
SpecTwice == InitBatch /\ [][NextTwice]_vars

NextBarcode == Construct \/ CallGenerateBarcode

\* generate_barcode on bounded strings
SpecBarcode == InitBarcode /\ [][NextBarcode]_vars

\* clean_upc on bounded strings
SpecClean == InitClean /\ [][CleanCall]_vars

-----------------------------------------------------------------------------
(* Vocabulary of the properties, defined apart from the operators above *)

DigitPositions(s) == {i \in 1..Len(s) : s[i] \in Digits}

\* the number of digit characters of s
DigitCount(s) == Cardinality(DigitPositions(s))

\* r is the digit characters of s in their order: the k-th digit position of s
\* holds r[k]
IsDigitSubsequence(r, s) ==
    /\ Len(r) = DigitCount(s)
    /\ \A p \in DigitPositions(s) :
           r[Cardinality({q \in DigitPositions(s) : q <= p})] = s[p]

\* every character of the line is whitespace (the empty line included)
AllWhitespace(line) == \A i \in 1..Len(line) : line[i] \in Whitespace

DigitValue(c) == CHOOSE d \in 0..9 : DigitChars[d + 1] = c

RECURSIVE DecimalValue(_)
\* the number a string of digits writes
DecimalValue(s) ==
    IF s = <<>> THEN 0
    ELSE 10 * DecimalValue(SubSeq(s, 1, Len(s) - 1)) + DigitValue(s[Len(s)])

Succeeded(c) == c.raised = NoError

\* positions of the calls that returned a path
Successes(log) == {k \in 1..Len(log) : Succeeded(log[k])}

\* the list's positions that hold a line with something else than whitespace
NonBlankPositions(list) == {j \in 1..Len(list) : ~AllWhitespace(list[j])}

InBatchMode == mode \in {"batch", "cli", "gui"}

BatchReturned == InBatchMode /\ history # <<>>

-----------------------------------------------------------------------------
(* C1 *)

\* C1: generate_barcode selects the UPC-A class for a string with exactly 12
\* digit characters and the UPC-E class for one with exactly 8; for every
\* other digit count it raises the invalid-length error whose message
\* carries that count, and selects no class.
C1_Classification ==
    mode = "calls" =>
        \A k \in 1..Len(calls) :
            LET c == calls[k]
                n == DigitCount(c.upc)
            IN  /\ n = 12 => c.selected = "upca" /\ c.raised.type # "ValueError"
                /\ n = 8 => c.selected = "upce" /\ c.raised.type # "ValueError"
                /\ n \notin {8, 12} =>
                       /\ c.selected = "none"
                       /\ c.raised.type = "ValueError"
                       /\ DecimalValue(c.raised.detail) = n
                       /\ c.path = <<>>

\* a 13-character string with 12 digits was classified as UPC-A
C1_Witness ==
    /\ mode = "calls"
    /\ Len(calls) = 1
    /\ Len(calls[1].upc) = 13
    /\ DigitCount(calls[1].upc) = 12
    /\ calls[1].selected = "upca"

-----------------------------------------------------------------------------
(* C2 *)

File0001 == <<"0", "0", "0", "1", "_",
              "1", "2", "3", "4", "5", "6", "7", "8", "9", "0", "1", "2">>

File0003 == <<"0", "0", "0", "3", "_", "1", "2", "3", "4", "5", "6", "7", "8">>

Stem(path, n) == SubSeq(path, 1, n)

\* C2: the index in an item's filename is the 1-based position of its line in
\* the list given to generate_batch, blank lines included; for
\* ["123456789012", "", "12345678"] with the renderer succeeding the batch
\* returns exactly the two artifacts 0001_123456789012 and 0003_12345678 and
\* no error.
C2_IndexIsLinePosition ==
    InBatchMode =>
        /\ \A k \in 1..Len(calls) :
               LET c == calls[k] IN
               /\ c.index \in 1..Len(upc_list)
               /\ strip(upc_list[c.index]) = c.upc
               /\ (Succeeded(c) /\ c.index < 10) =>
                      Stem(c.path, 5)
                          = <<"0", "0", "0", DigitChars[c.index + 1], "_">>
        /\ ( /\ BatchReturned
             /\ upc_list = <<L12, Blank, L8>>
             /\ \A k \in 1..Len(calls) : Succeeded(calls[k]) )
           => /\ Len(generated_files) = 2
              /\ Stem(generated_files[1], 17) = File0001
              /\ Stem(generated_files[2], 13) = File0003
              /\ Len(generated_files[1]) = 17 + 4
              /\ Len(generated_files[2]) = 13 + 4
              /\ files = {generated_files[1], generated_files[2]}
              /\ errors = <<>>

\* the batch over the three lines returned with both items rendered
C2_Witness ==
    /\ mode = "batch"
    /\ pc = "returned"
    /\ upc_list = <<L12, Blank, L8>>
    /\ Len(generated_files) = 2
    /\ errors = <<>>

-----------------------------------------------------------------------------
(* C3 *)

\* C3: no item's failure ends generate_batch: once the generator exists no
\* exception leaves the batch, the loop can always take its next step, every
\* non-blank line before the loop position has been attempted, also after a
\* failure, and the list returned holds exactly the paths of the items that
\* rendered, one each, in order.
C3_FailuresIsolated ==
    InBatchMode =>
        /\ generator # <<>> => pc \notin {"crashed", "gui_error"}
        /\ pc = "batch" =>
               /\ ENABLED (BatchIter \/ BatchReturn)
               /\ {calls[k].index : k \in 1..Len(calls)}
                     = {j \in NonBlankPositions(upc_list) : j < index}
               /\ Len(calls) = Cardinality({calls[k].index : k \in 1..Len(calls)})
        /\ pc \in {"batch", "returned"} =>
               /\ Len(generated_files) = Cardinality(Successes(calls))
               /\ \A k \in Successes(calls) :
                      generated_files[Cardinality({m \in Successes(calls) :
                                                       m <= k})]
                          = calls[k].path
        /\ BatchReturned =>
               /\ {calls[k].index : k \in 1..Len(calls)}
                     = NonBlankPositions(upc_list)
               /\ history[Len(history)].returned = generated_files

\* a batch returned in which an item rendered after a renderer failure
C3_Witness ==
    /\ BatchReturned
    /\ \E i, j \in 1..Len(calls) :
           /\ i < j
           /\ calls[i].raised = RenderFailure
           /\ Succeeded(calls[j])

-----------------------------------------------------------------------------
(* C4 *)

\* C4: blank and whitespace-only lines count neither as successes nor as
\* errors: when the batch returns, successes plus errors equal the number of
\* lines that hold something else than whitespace, and no generate_barcode
\* call, hence no renderer call and no file, was made for a blank line.
C4_BlankLinesUncounted ==
    InBatchMode =>
        /\ \A k \in 1..Len(calls) : ~AllWhitespace(upc_list[calls[k].index])
        /\ Cardinality(files) <= Cardinality(NonBlankPositions(upc_list))
        /\ pc \in {"batch", "returned"} =>
               Len(generated_files) + Len(errors)
                   = Cardinality({j \in NonBlankPositions(upc_list) : j < index})
        /\ BatchReturned =>
               Len(generated_files) + Len(errors)
                   = Cardinality(NonBlankPositions(upc_list))

\* a batch returned over a list with a whitespace-only line, a success and
\* an error
C4_Witness ==
    /\ mode = "batch"
    /\ pc = "returned"
    /\ \E j \in 1..Len(upc_list) : upc_list[j] = Spaces
    /\ generated_files # <<>>
    /\ errors # <<>>

-----------------------------------------------------------------------------
(* C5 *)

\* the loop stands at a non-blank line whose digit count is neither 8 nor 12
AtInvalidItem ==
    /\ InBatchMode
    /\ pc = "batch"
    /\ index <= Len(upc_list)
    /\ ~AllWhitespace(upc_list[index])
    /\ DigitCount(upc_list[index]) \notin {8, 12}

\* what the iteration over such an item does
InvalidItemStep ==
    AtInvalidItem =>
        /\ files' = files
        /\ generated_files' = generated_files
        /\ Len(errors') = Len(errors) + 1
        /\ SubSeq(errors', 1, Len(errors)) = errors
        /\ errors'[Len(errors')].type = "ValueError"
        /\ DecimalValue(errors'[Len(errors')].detail)
               = DigitCount(upc_list[index])
        /\ Len(calls') = Len(calls) + 1
        /\ calls'[Len(calls')].selected = "none"
        /\ calls'[Len(calls')].path = <<>>

\* the batch over ["1234567"] returned
SevenDigitsReturned == BatchReturned /\ upc_list = <<L7>>

\* C5: an item whose digit count is neither 8 nor 12 adds exactly one error
\* entry carrying that count and nothing else: the renderer is not invoked,
\* no path is returned and the directory's files stay as they were; the
\* batch over ["1234567"] ends with one error mentioning 7 and no artifact.
C5_InvalidLengthItem ==
    /\ [][InvalidItemStep]_vars
    /\ [](SevenDigitsReturned =>
              /\ Len(errors) = 1
              /\ errors[1].type = "ValueError"
              /\ errors[1].detail = <<"7">>
              /\ generated_files = <<>>
              /\ files = {}
              /\ \A k \in 1..Len(calls) : calls[k].selected = "none")

\* the batch over ["1234567"] returned with its one error
C5_Witness ==
    /\ SevenDigitsReturned
    /\ mode = "batch"
    /\ Len(errors) = 1
    /\ Len(calls) = 1

-----------------------------------------------------------------------------
(* C6 *)

-----------------------------------------------------------------------------
(* C7 *)

\* the renderer did the same in both runs for the same arguments
SameRenderer(log1, log2) ==
    \A i \in 1..Len(log1), j \in 1..Len(log2) :
        (log1[i].upc = log2[j].upc /\ log1[i].index = log2[j].index)
            => log1[i].raised = log2[j].raised

\* C7: a second generate_batch over the same list into the same directory,
\* on a new generator, raises nothing for the directory and files that are
\* already there; with the renderer behaving as in the first run it returns
\* the same paths, collects the same errors and leaves the same files.
C7_SecondRunSame ==
    mode = "batch" =>
        /\ Len(history) >= 1 => pc # "crashed"
        /\ ( /\ Len(history) = 2
             /\ SameRenderer(history[1].calls, history[2].calls) )
           => /\ history[2].returned = history[1].returned
              /\ history[2].errors = history[1].errors
              /\ history[2].files = history[1].files

\* two runs returned, with a success and an error in each
C7_Witness ==
    /\ mode = "batch"
    /\ Len(history) = 2
    /\ SameRenderer(history[1].calls, history[2].calls)
    /\ history[1].returned # <<>>
    /\ history[1].errors # <<>>
    /\ history[2].files # {}

-----------------------------------------------------------------------------
(* C8 *)

NothingProcessed ==
    /\ generator = <<>>
    /\ calls = <<>>
    /\ files = {}
    /\ history = <<>>

WholeBatchProcessed ==
    /\ Len(history) = 1
    /\ Len(upc_list) = Len(input)
    /\ {calls[k].index : k \in 1..Len(calls)} = NonBlankPositions(input)

CliExited == mode = "cli" /\ exit_status # <<>>

-----------------------------------------------------------------------------
(* C9 *)

\* C9: line mode and the form give every non-blank input line the
\* index of its position among all the lines supplied: the list handed to
\* generate_batch holds the line at that position, and every
\* generate_barcode call carries the position of its line.
C9_SameIndexPolicy ==
    mode \in {"cli", "gui"} =>
        /\ pc = "call_batch" =>
               \A k \in NonBlankPositions(input) :
                   k <= Len(upc_list) /\ upc_list[k] = strip(input[k])
        /\ \A k \in 1..Len(calls) :
               /\ calls[k].index \in 1..Len(input)
               /\ strip(input[calls[k].index]) = calls[k].upc

-----------------------------------------------------------------------------
(* C10 *)

\* the k-th digit character of s
DigitAt(s, k) ==
    s[CHOOSE p \in DigitPositions(s) :
          Cardinality({q \in DigitPositions(s) : q <= p}) = k]

SameDigits(a, b) ==
    /\ DigitCount(a) = DigitCount(b)
    /\ \A k \in 1..DigitCount(a) : DigitAt(a, k) = DigitAt(b, k)

\* C10: within one batch the calls carry strictly increasing indices, no two
\* rendered items get the same path, so every returned path is a file of its
\* own, and the paths are returned in input order; two items that differ in
\* index or in digits get different filenames, also for indices above 9999.
C10_FilenamesDistinct ==
    /\ InBatchMode =>
           /\ \A i, j \in 1..Len(calls) :
                  i < j => calls[i].index < calls[j].index
           /\ \A i, j \in Successes(calls) :
                  i # j => calls[i].path # calls[j].path
           /\ pc \in {"batch", "returned"} =>
                  /\ Cardinality(files) = Len(generated_files)
                  /\ \A k \in Successes(calls) :
                         generated_files[Cardinality({m \in Successes(calls) :
                                                          m <= k})]
                             = calls[k].path
    /\ mode = "calls" =>
           \A i, j \in Successes(calls) :
               ( \/ calls[i].index # calls[j].index
                 \/ ~SameDigits(calls[i].upc, calls[j].upc) )
                   => calls[i].path # calls[j].path

\* the same digits rendered at index 1 and at index 10001
C10_Witness ==
    /\ mode = "calls"
    /\ Len(calls) = 2
    /\ Succeeded(calls[1]) /\ Succeeded(calls[2])
    /\ calls[1].index = 1
    /\ calls[2].index = 10001
    /\ calls[1].upc = calls[2].upc
    /\ Cardinality(files) = 2

=============================================================================
